---- MODULE Spec2Model ----
(***************************************************************************)
(* Sommelier gravity extension of ocular (src/src/extension.rs).           *)
(*                                                                         *)
(*   - the message encoder: SommGravity::into_any and SommGravity::into_tx *)
(*     (impl ModuleMsg for SommGravity), with the protobuf encoding that   *)
(*     prost::Message::encode performs on each message;                    *)
(*   - the query facade: impl SommGravityExt for GrpcClient, every method  *)
(*     of which connects (SommGravityQueryClient::new_client), builds one  *)
(*     request and awaits one remote call.                                 *)
(*                                                                         *)
(* Strings carried by a message (&str fields) are sequences of UTF-8       *)
(* bytes; type URLs and error texts are the literals of the source.        *)
(***************************************************************************)
EXTENDS Integers, Sequences, FiniteSets, TLC

(***************************************************************************)
(* State.                                                                  *)
(***************************************************************************)
VARIABLES
  op,             \* the encoder method last called: "none", "into_any", "into_tx"
  action,         \* the SommGravity value it was called on
  remaining_mut,  \* the room the output buffer reported to the codec
  result,         \* what the call returned, with the codec invocations it made
  earlier,        \* an earlier into_any call and its result, as the caller kept them
  grpc_endpoint,  \* GrpcClient: the endpoint it is configured with
  calls,          \* per task, the frame of the query call it awaits
  channels,       \* the transport: the connections of the calls in flight
  connects,       \* the transport: connections started so far
  started         \* query calls made so far

(***************************************************************************)
(* Bounds of the inputs.                                                   *)
(***************************************************************************)
\* longest &str field handed to the encoder
MaxStrLen == 1
\* longest Vec<u8> field handed to the encoder
MaxBytesLen == 1

\* the &str inputs: "", "a", "aa", ...
Strs == { [i \in 1..n |-> 97] : n \in 0..MaxStrLen }
\* the Vec<u8> inputs: [], [0xAA], [0xAA, 0xAA], ...
ByteVecs == { [i \in 1..n |-> 170] : n \in 0..MaxBytesLen }
\* the u64 inputs: zero (proto3 default), one-byte and two-byte varints
U64s == {0, 7, 300}
\* cosmrs Coin inputs (a Denom is never empty)
Coins == [denom : Strs \ {<<>>}, amount : {1, 100}]
\* remaining_mut() of the buffer prost writes to: none, a few bytes, ample
Remainings == {0, 4, 1000}

(***************************************************************************)
(* The wire codec: what prost::Message::encode writes.                     *)
(***************************************************************************)
RECURSIVE encode_varint(_)
encode_varint(n) ==
  IF n < 128 THEN <<n>> ELSE <<(n % 128) + 128>> \o encode_varint(n \div 128)

\* key of a field: (tag << 3) | wire_type
encode_key(tag, wire_type) == encode_varint(tag * 8 + wire_type)

\* proto3 string field: skipped when empty, else key, length, bytes
string_encode(tag, s) ==
  IF s = <<>> THEN <<>> ELSE encode_key(tag, 2) \o encode_varint(Len(s)) \o s

\* proto3 bytes field: same layout as a string
bytes_encode(tag, b) ==
  IF b = <<>> THEN <<>> ELSE encode_key(tag, 2) \o encode_varint(Len(b)) \o b

\* proto3 uint64 field: skipped when zero, else key and varint
uint64_encode(tag, n) ==
  IF n = 0 THEN <<>> ELSE encode_key(tag, 0) \o encode_varint(n)

\* an embedded message that is Some(..): always written, length-delimited
message_encode(tag, raw) ==
  encode_key(tag, 2) \o encode_varint(Len(raw)) \o raw

\* u128 amount rendered in decimal (Coin -> proto Coin, amount.to_string())
RECURSIVE to_string(_)
to_string(n) ==
  IF n < 10 THEN <<48 + n>> ELSE to_string(n \div 10) \o <<48 + (n % 10)>>

\* UTF-8 bytes of the type URLs (and of the empty URL of Any::default())
Utf8(s) ==
  CASE s = "" -> <<>>
    [] s = "/gravity.v1.MsgSendToEthereum" ->
         <<47,103,114,97,118,105,116,121,46,118,49,46,77,115,103,83,101,110,100,84,111,69,116,104,101,114,101,117,109>>
    [] s = "/gravity.v1.MsgCancelSendToEthereum" ->
         <<47,103,114,97,118,105,116,121,46,118,49,46,77,115,103,67,97,110,99,101,108,83,101,110,100,84,111,69,116,104,101,114,101,117,109>>
    [] s = "/gravity.v1.MsgRequestBatchTx" ->
         <<47,103,114,97,118,105,116,121,46,118,49,46,77,115,103,82,101,113,117,101,115,116,66,97,116,99,104,84,120>>
    [] s = "/gravity.v1.MsgSubmitEthereumTxConfirmation" ->
         <<47,103,114,97,118,105,116,121,46,118,49,46,77,115,103,83,117,98,109,105,116,69,116,104,101,114,101,117,109,84,120,67,111,110,102,105,114,109,97,116,105,111,110>>
    [] s = "/gravity.v1.ContractCallTxConfirmation" ->
         <<47,103,114,97,118,105,116,121,46,118,49,46,67,111,110,116,114,97,99,116,67,97,108,108,84,120,67,111,110,102,105,114,109,97,116,105,111,110>>
    [] s = "/gravity.v1.BatchTxConfirmation" ->
         <<47,103,114,97,118,105,116,121,46,118,49,46,66,97,116,99,104,84,120,67,111,110,102,105,114,109,97,116,105,111,110>>
    [] s = "/gravity.v1.SignerSetTxConfirmation" ->
         <<47,103,114,97,118,105,116,121,46,118,49,46,83,105,103,110,101,114,83,101,116,84,120,67,111,110,102,105,114,109,97,116,105,111,110>>
    [] s = "/gravity.v1.MsgSubmitEthereumEvent" ->
         <<47,103,114,97,118,105,116,121,46,118,49,46,77,115,103,83,117,98,109,105,116,69,116,104,101,114,101,117,109,69,118,101,110,116>>
    [] s = "/gravity.v1.MsgDelegateKeys" ->
         <<47,103,114,97,118,105,116,121,46,118,49,46,77,115,103,68,101,108,101,103,97,116,101,75,101,121,115>>
    [] s = "/gravity.v1.DelegateKeysSignMsg" ->
         <<47,103,114,97,118,105,116,121,46,118,49,46,68,101,108,101,103,97,116,101,75,101,121,115,83,105,103,110,77,115,103>>
    [] s = "/gravity.v1.MsgEthereumHeightVote" ->
         <<47,103,114,97,118,105,116,121,46,118,49,46,77,115,103,69,116,104,101,114,101,117,109,72,101,105,103,104,116,86,111,116,101>>

\* cosmos.base.v1beta1.Coin { denom = 1, amount = 2 }, from `amount.into()`
Coin_encode_raw(c) ==
  string_encode(1, c.denom) \o string_encode(2, to_string(c.amount))

\* google.protobuf.Any { type_url = 1, value = 2 }
Any_encode_raw(any) ==
  string_encode(1, Utf8(any.type_url)) \o bytes_encode(2, any.value)

\* Any::default()
Any_default == [type_url |-> "", value |-> <<>>]

(***************************************************************************)
(* enum SommGravity: the eleven variants and the values each can carry.    *)
(***************************************************************************)
ConfirmationVariants ==
  {"ContractCallTxConfirmation", "BatchTxConfirmation", "SignerSetTxConfirmation"}

Variants ==
  {"SendToEthereum", "CancelSendToEthereum", "RequestBatchTx",
   "SubmitEthereumTxConfirmation", "SubmitEthereumEvent", "SetDelegateKeys",
   "DelegateKeysSignMsg", "SubmitEthereumHeightVote"} \cup ConfirmationVariants

\* slip: the SetDelegateKeys arm names its URL after the variant, not the message
TypeUrl_named_after_variant(variant) ==
  CASE variant = "SendToEthereum" -> "/gravity.v1.MsgSendToEthereum"
    [] variant = "CancelSendToEthereum" -> "/gravity.v1.MsgCancelSendToEthereum"
    [] variant = "RequestBatchTx" -> "/gravity.v1.MsgRequestBatchTx"
    [] variant = "SubmitEthereumTxConfirmation" ->
         "/gravity.v1.MsgSubmitEthereumTxConfirmation"
    [] variant = "ContractCallTxConfirmation" ->
         "/gravity.v1.ContractCallTxConfirmation"
    [] variant = "BatchTxConfirmation" -> "/gravity.v1.BatchTxConfirmation"
    [] variant = "SignerSetTxConfirmation" -> "/gravity.v1.SignerSetTxConfirmation"
    [] variant = "SubmitEthereumEvent" -> "/gravity.v1.MsgSubmitEthereumEvent"
    [] variant = "SetDelegateKeys" -> "/gravity.v1.MsgSetDelegateKeys"
    [] variant = "DelegateKeysSignMsg" -> "/gravity.v1.DelegateKeysSignMsg"
    [] variant = "SubmitEthereumHeightVote" -> "/gravity.v1.MsgEthereumHeightVote"

\* slip: the BatchTxConfirmation arm, pasted from the arm above it, keeps its URL
TypeUrl_pasted_arm(variant) ==
  CASE variant = "SendToEthereum" -> "/gravity.v1.MsgSendToEthereum"
    [] variant = "CancelSendToEthereum" -> "/gravity.v1.MsgCancelSendToEthereum"
    [] variant = "RequestBatchTx" -> "/gravity.v1.MsgRequestBatchTx"
    [] variant = "SubmitEthereumTxConfirmation" ->
         "/gravity.v1.MsgSubmitEthereumTxConfirmation"
    [] variant = "ContractCallTxConfirmation" ->
         "/gravity.v1.ContractCallTxConfirmation"
    [] variant = "BatchTxConfirmation" -> "/gravity.v1.ContractCallTxConfirmation"
    [] variant = "SignerSetTxConfirmation" -> "/gravity.v1.SignerSetTxConfirmation"
    [] variant = "SubmitEthereumEvent" -> "/gravity.v1.MsgSubmitEthereumEvent"
    [] variant = "SetDelegateKeys" -> "/gravity.v1.MsgDelegateKeys"
    [] variant = "DelegateKeysSignMsg" -> "/gravity.v1.DelegateKeysSignMsg"
    [] variant = "SubmitEthereumHeightVote" -> "/gravity.v1.MsgEthereumHeightVote"

\* the type URL each arm of into_any stores in any.type_url
TypeUrl(variant) ==
  CASE variant = "SendToEthereum" -> "/gravity.v1.MsgSendToEthereum"
    [] variant = "CancelSendToEthereum" -> "/gravity.v1.MsgCancelSendToEthereum"
    [] variant = "RequestBatchTx" -> "/gravity.v1.MsgRequestBatchTx"
    [] variant = "SubmitEthereumTxConfirmation" ->
         "/gravity.v1.MsgSubmitEthereumTxConfirmation"
    [] variant = "ContractCallTxConfirmation" ->
         "/gravity.v1.ContractCallTxConfirmation"
    [] variant = "BatchTxConfirmation" -> "/gravity.v1.BatchTxConfirmation"
    [] variant = "SignerSetTxConfirmation" -> "/gravity.v1.SignerSetTxConfirmation"
    [] variant = "SubmitEthereumEvent" -> "/gravity.v1.MsgSubmitEthereumEvent"
    [] variant = "SetDelegateKeys" -> "/gravity.v1.MsgDelegateKeys"
    [] variant = "DelegateKeysSignMsg" -> "/gravity.v1.DelegateKeysSignMsg"
    [] variant = "SubmitEthereumHeightVote" -> "/gravity.v1.MsgEthereumHeightVote"

\* the gravity_proto message each arm of into_any builds and encodes
MsgType(variant) ==
  CASE variant = "SendToEthereum" -> "MsgSendToEthereum"
    [] variant = "CancelSendToEthereum" -> "MsgCancelSendToEthereum"
    [] variant = "RequestBatchTx" -> "MsgRequestBatchTx"
    [] variant = "SubmitEthereumTxConfirmation" -> "MsgSubmitEthereumTxConfirmation"
    [] variant = "ContractCallTxConfirmation" -> "ContractCallTxConfirmation"
    [] variant = "BatchTxConfirmation" -> "BatchTxConfirmation"
    [] variant = "SignerSetTxConfirmation" -> "SignerSetTxConfirmation"
    [] variant = "SubmitEthereumEvent" -> "MsgSubmitEthereumEvent"
    [] variant = "SetDelegateKeys" -> "MsgDelegateKeys"
    [] variant = "DelegateKeysSignMsg" -> "DelegateKeysSignMsg"
    [] variant = "SubmitEthereumHeightVote" -> "MsgEthereumHeightVote"

\* the format string each arm of into_any bails with when encode fails
BailFormat(variant) ==
  CASE variant = "SendToEthereum" -> "failed to encode MsgSendToEthereum: {}"
    [] variant = "CancelSendToEthereum" ->
         "failed to encode MsgCancelSendToEthereum: {}"
    [] variant = "RequestBatchTx" -> "failed to encode MsgRequestBatchTx: {}"
    [] variant = "SubmitEthereumTxConfirmation" ->
         "failed to encode MsgSubmitEthereumTxConfirmation: {}"
    [] variant = "ContractCallTxConfirmation" ->
         "failed to encode ContractCallTxConfirmation: {}"
    [] variant = "BatchTxConfirmation" -> "failed to encode BatchTxConfirmation: {}"
    [] variant = "SignerSetTxConfirmation" ->
         "failed to encode SignerSetTxConfirmation: {}"
    [] variant = "SubmitEthereumEvent" -> "failed to encode MsgSubmitEthereumEvent: {}"
    [] variant = "SetDelegateKeys" -> "failed to encode MsgDelegateKeys: {}"
    [] variant = "DelegateKeysSignMsg" -> "failed to encode DelegateKeysSignMsg: {}"
    [] variant = "SubmitEthereumHeightVote" ->
         "failed to encode MsgEthereumHeightVote: {}"

\* the fields of the message an arm builds, in protobuf wire form.  Field
\* numbers are those of the gravity.v1 schema behind gravity_proto.
encode_raw(a) ==
  CASE a.variant = "SendToEthereum" ->
         string_encode(1, a.sender) \o string_encode(2, a.ethereum_recipient)
           \o message_encode(3, Coin_encode_raw(a.amount))
           \o message_encode(4, Coin_encode_raw(a.bridge_fee))
    [] a.variant = "CancelSendToEthereum" ->
         uint64_encode(1, a.id) \o string_encode(2, a.sender)
    [] a.variant = "RequestBatchTx" ->
         string_encode(1, a.denom) \o string_encode(2, a.signer)
    [] a.variant = "SubmitEthereumTxConfirmation" ->
         message_encode(1, Any_encode_raw(a.confirmation))
           \o string_encode(2, a.signer)
    [] a.variant = "ContractCallTxConfirmation" ->
         bytes_encode(1, a.invalidation_scope)
           \o uint64_encode(2, a.invalidation_nonce)
           \o string_encode(3, a.ethereum_signer) \o bytes_encode(4, a.signature)
    [] a.variant = "BatchTxConfirmation" ->
         string_encode(1, a.token_contract_address)
           \o uint64_encode(2, a.batch_nonce)
           \o string_encode(3, a.ethereum_signer) \o bytes_encode(4, a.signature)
    [] a.variant = "SignerSetTxConfirmation" ->
         uint64_encode(1, a.signer_set_nonce)
           \o string_encode(2, a.ethereum_signer) \o bytes_encode(3, a.signature)
    [] a.variant = "SubmitEthereumEvent" ->
         message_encode(1, Any_encode_raw(a.event)) \o string_encode(2, a.signer)
    [] a.variant = "SetDelegateKeys" ->
         string_encode(1, a.validator_address)
           \o string_encode(2, a.orchestrator_address)
           \o string_encode(3, a.ethereum_address)
           \o bytes_encode(4, a.eth_signature)
    [] a.variant = "DelegateKeysSignMsg" ->
         string_encode(1, a.validator_address) \o uint64_encode(2, a.nonce)
    [] a.variant = "SubmitEthereumHeightVote" ->
         uint64_encode(1, a.ethereum_height) \o string_encode(2, a.signer)

\* prost::Message::encode(&msg, &mut any.value): refuses, writing nothing,
\* when the buffer cannot take the encoded length; else appends the bytes.
Message_encode(raw, buf, remaining) ==
  IF Len(raw) > remaining
    THEN [ok |-> FALSE, buf |-> buf,
          e |-> [required |-> Len(raw), remaining |-> remaining]]
    ELSE [ok |-> TRUE, buf |-> buf \o raw]

\* one record of the codec having been invoked on a message
CodecCall(variant, enc) == [msg |-> MsgType(variant), ok |-> enc.ok]

(***************************************************************************)
(* impl ModuleMsg for SommGravity                                          *)
(***************************************************************************)
\* slip: the Err of encode is dropped (`let _ = encode(..)`) and the arm goes on
into_any_ignoring_encode_error(a, remaining) ==
  LET enc == Message_encode(encode_raw(a), Any_default.value, remaining)
  IN  [ok |-> TRUE,
       any |-> [type_url |-> TypeUrl(a.variant), value |-> enc.buf],
       codec |-> <<CodecCall(a.variant, enc)>>]

\* slip: the SubmitEthereumTxConfirmation arm hands back the confirmation it
\* was given instead of the message wrapping it
into_any_returning_inner(a, remaining) ==
  LET enc == Message_encode(encode_raw(a), Any_default.value, remaining)
      codec == <<CodecCall(a.variant, enc)>>
  IN  IF ~enc.ok
        THEN [ok |-> FALSE,
              err |-> [text |-> BailFormat(a.variant), e |-> enc.e],
              codec |-> codec]
        ELSE [ok |-> TRUE,
              any |-> IF a.variant = "SubmitEthereumTxConfirmation"
                        THEN a.confirmation
                        ELSE [type_url |-> TypeUrl(a.variant), value |-> enc.buf],
              codec |-> codec]

\* slip: the output buffer is a static that is not cleared between calls and
\* still holds the bytes of an earlier encoding
into_any_reusing_buffer(a, remaining) ==
  LET stale == IF earlier.set /\ earlier.result.ok
                 THEN earlier.result.any.value ELSE <<>>
      enc == Message_encode(encode_raw(a), stale, remaining)
      codec == <<CodecCall(a.variant, enc)>>
  IN  IF ~enc.ok
        THEN [ok |-> FALSE,
              err |-> [text |-> BailFormat(a.variant), e |-> enc.e],
              codec |-> codec]
        ELSE [ok |-> TRUE,
              any |-> [type_url |-> TypeUrl(a.variant), value |-> enc.buf],
              codec |-> codec]

\* fn into_any(self) -> Result<Any>.  `remaining` is the room the output
\* buffer reports.  The result carries the codec invocations it made.
into_any(a, remaining) ==
  LET enc == Message_encode(encode_raw(a), Any_default.value, remaining)
      codec == <<CodecCall(a.variant, enc)>>
  IN  IF ~enc.ok
        THEN [ok |-> FALSE,
              err |-> [text |-> BailFormat(a.variant), e |-> enc.e],
              codec |-> codec]
        ELSE [ok |-> TRUE,
              any |-> [type_url |-> TypeUrl(a.variant), value |-> enc.buf],
              codec |-> codec]

\* UnsignedTx::new()
UnsignedTx_new == [msgs |-> <<>>]

\* slip: add_msg replaces the message list instead of extending it, and the
\* replacement keeps the default envelope in front
add_msg_keeping_default(tx, any) == [tx EXCEPT !.msgs = <<Any_default, any>>]

\* UnsignedTx::add_msg
add_msg(tx, any) == [tx EXCEPT !.msgs = Append(@, any)]

\* the bail! texts of the three refusing arms of into_tx
NotATxText(variant) ==
  CASE variant = "ContractCallTxConfirmation" ->
         "ContractCallTxConfirmation does not represent a transaction Msg. use into_any() to get the Any representation"
    [] variant = "BatchTxConfirmation" ->
         "BatchTxConfirmation does not represent a transaction Msg. use into_any() to get the Any representation"
    [] variant = "SignerSetTxConfirmation" ->
         "SignerSetTxConfirmation does not represent a transaction Msg. use into_any() to get the Any representation"

\* slip: the SignerSetTxConfirmation arm is missing from into_tx
RefusedByIntoTx_missing_arm(variant) ==
  variant \in {"ContractCallTxConfirmation", "BatchTxConfirmation"}

\* the variants matched by the three refusing arms of into_tx
RefusedByIntoTx(variant) ==
  variant \in {"ContractCallTxConfirmation", "BatchTxConfirmation",
               "SignerSetTxConfirmation"}

\* slip: into_tx encodes first (`let any = self.into_any()?`) and only then
\* looks at the variant
into_tx_encode_then_reject(a, remaining) ==
  LET r == into_any(a, remaining)
  IN  IF ~r.ok
        THEN r
        ELSE IF RefusedByIntoTx(a.variant)
               THEN [ok |-> FALSE, err |-> [text |-> NotATxText(a.variant)],
                     codec |-> r.codec]
               ELSE [ok |-> TRUE, tx |-> add_msg(UnsignedTx_new, r.any),
                     codec |-> r.codec]

\* slip: the `_` arm adds the message only `if let Ok(any) = self.into_any()`
\* and returns the transaction either way
into_tx_skipping_failed_msg(a, remaining) ==
  IF RefusedByIntoTx(a.variant)
    THEN [ok |-> FALSE, err |-> [text |-> NotATxText(a.variant)], codec |-> <<>>]
    ELSE LET r == into_any(a, remaining)
         IN  [ok |-> TRUE,
              tx |-> IF r.ok THEN add_msg(UnsignedTx_new, r.any)
                             ELSE UnsignedTx_new,
              codec |-> r.codec]

\* fn into_tx(self) -> Result<UnsignedTx>
into_tx(a, remaining) ==
  IF RefusedByIntoTx(a.variant)
    THEN [ok |-> FALSE, err |-> [text |-> NotATxText(a.variant)], codec |-> <<>>]
    ELSE LET r == into_any(a, remaining)
         IN  IF r.ok
               THEN [ok |-> TRUE, tx |-> add_msg(UnsignedTx_new, r.any),
                     codec |-> r.codec]
               ELSE r

(***************************************************************************)
(* The actions a caller can construct.                                     *)
(***************************************************************************)
ContractCallTxConfirmations ==
  [variant : {"ContractCallTxConfirmation"}, invalidation_scope : ByteVecs,
   invalidation_nonce : U64s, ethereum_signer : Strs, signature : ByteVecs]

BatchTxConfirmations ==
  [variant : {"BatchTxConfirmation"}, token_contract_address : Strs,
   batch_nonce : U64s, ethereum_signer : Strs, signature : ByteVecs]

SignerSetTxConfirmations ==
  [variant : {"SignerSetTxConfirmation"}, signer_set_nonce : U64s,
   ethereum_signer : Strs, signature : ByteVecs]

ConfirmationActions ==
  ContractCallTxConfirmations \cup BatchTxConfirmations
    \cup SignerSetTxConfirmations

\* envelopes a caller obtained from into_any on a confirmation
ConfirmationAnys == { into_any(c, 1000).any : c \in ConfirmationActions }

\* an observed event is any envelope the caller built elsewhere
EventAnys == [type_url : {""}, value : ByteVecs]

Actions ==
  [variant : {"SendToEthereum"}, sender : Strs, ethereum_recipient : Strs,
   amount : Coins, bridge_fee : Coins]
    \cup [variant : {"CancelSendToEthereum"}, sender : Strs, id : U64s]
    \cup [variant : {"RequestBatchTx"}, denom : Strs, signer : Strs]
    \cup [variant : {"SubmitEthereumTxConfirmation"},
          confirmation : ConfirmationAnys \cup {Any_default}, signer : Strs]
    \cup ConfirmationActions
    \cup [variant : {"SubmitEthereumEvent"}, event : EventAnys, signer : Strs]
    \cup [variant : {"SetDelegateKeys"}, validator_address : Strs,
          orchestrator_address : Strs, ethereum_address : Strs,
          eth_signature : ByteVecs]
    \cup [variant : {"DelegateKeysSignMsg"}, validator_address : Strs, nonce : U64s]
    \cup [variant : {"SubmitEthereumHeightVote"}, ethereum_height : U64s,
          signer : Strs]

(***************************************************************************)
(* The query facade: impl SommGravityExt for GrpcClient.                   *)
(***************************************************************************)
\* most query calls the model follows from first to last
MaxCalls == 3

\* the caller's tasks, each awaiting at most one query call at a time
Tasks == {"t1", "t2"}

\* endpoints a GrpcClient can be configured with
Endpoints == {"http://localhost:9090", "https://grpc.sommelier.example:443"}

\* values of the parameters of the query methods
QueryU64s == {7}
QueryStrs == {<<97>>}
QueryScopes == {<<1, 2>>}
\* Option<PageRequest>: None, or the page after a cursor
Paginations ==
  {[some |-> FALSE]} \cup [some : {TRUE}, key : {<<2>>}, limit : {1}]

\* what the transport can answer
ConnectErrors == {[type |-> "tonic::transport::Error", kind |-> "Transport"]}
Statuses == {[type |-> "tonic::Status", code |-> "Unavailable"]}
Bodies == {"b1", "b2"}

\* the methods of the trait
QueryOps ==
  {"query_somm_gravity_params", "query_signer_set_tx",
   "query_latest_signer_set_tx", "query_batch_tx", "query_contract_call_tx",
   "query_signer_set_txs", "query_batch_txs", "query_contract_call_txs",
   "query_signer_set_tx_confirmations", "query_batch_tx_confirmations",
   "query_contract_call_tx_confirmations", "query_unsigned_signer_set_txs",
   "query_unsigned_batch_txs", "query_unsigned_contract_call_txs",
   "query_last_submitted_ethereum_event", "query_erc20_to_denom",
   "query_denom_to_erc20_params", "query_denom_to_erc20",
   "query_delegate_keys_by_validator", "query_delegate_keys_by_ethereum_signer",
   "query_delegate_keys_by_orchestrator", "query_delegate_keys",
   "query_batched_send_to_ethereums", "query_unbatched_send_to_ethereums"}

\* the parameters each method takes (besides &self)
QueryArgs(q) ==
  CASE q \in {"query_somm_gravity_params", "query_latest_signer_set_tx",
              "query_delegate_keys"} -> {[none |-> TRUE]}
    [] q \in {"query_signer_set_tx", "query_signer_set_tx_confirmations"} ->
         [nonce : QueryU64s]
    [] q \in {"query_batch_tx", "query_batch_tx_confirmations"} ->
         [token_contract_address : QueryStrs, nonce : QueryU64s]
    [] q \in {"query_contract_call_tx", "query_contract_call_tx_confirmations"} ->
         [invalidation_scope : QueryScopes, invalidation_nonce : QueryU64s]
    [] q \in {"query_signer_set_txs", "query_batch_txs",
              "query_contract_call_txs"} -> [pagination : Paginations]
    [] q \in {"query_unsigned_signer_set_txs", "query_unsigned_batch_txs",
              "query_unsigned_contract_call_txs",
              "query_last_submitted_ethereum_event"} -> [address : QueryStrs]
    [] q = "query_erc20_to_denom" -> [erc20 : QueryStrs]
    [] q \in {"query_denom_to_erc20_params", "query_denom_to_erc20"} ->
         [denom : QueryStrs]
    [] q = "query_delegate_keys_by_validator" -> [validator_address : QueryStrs]
    [] q = "query_delegate_keys_by_ethereum_signer" ->
         [ethereum_signer_address : QueryStrs]
    [] q = "query_delegate_keys_by_orchestrator" ->
         [orchestrator_address : QueryStrs]
    [] q = "query_batched_send_to_ethereums" -> [sender_address : QueryStrs]
    [] q = "query_unbatched_send_to_ethereums" ->
         [sender_address : QueryStrs, pagination : Paginations]

\* the method of the generated QueryClient each trait method awaits
RpcMethod(q) ==
  CASE q = "query_somm_gravity_params" -> "params"
    [] q = "query_signer_set_tx" -> "signer_set_tx"
    [] q = "query_latest_signer_set_tx" -> "latest_signer_set_tx"
    [] q = "query_batch_tx" -> "batch_tx"
    [] q = "query_contract_call_tx" -> "contract_call_tx"
    [] q = "query_signer_set_txs" -> "signer_set_txs"
    [] q = "query_batch_txs" -> "batch_txs"
    [] q = "query_contract_call_txs" -> "contract_call_txs"
    [] q = "query_signer_set_tx_confirmations" -> "signer_set_tx_confirmations"
    [] q = "query_batch_tx_confirmations" -> "batch_tx_confirmations"
    [] q = "query_contract_call_tx_confirmations" ->
         "contract_call_tx_confirmations"
    [] q = "query_unsigned_signer_set_txs" -> "unsigned_signer_set_txs"
    [] q = "query_unsigned_batch_txs" -> "unsigned_batch_txs"
    [] q = "query_unsigned_contract_call_txs" -> "unsigned_contract_call_txs"
    [] q = "query_last_submitted_ethereum_event" -> "last_submitted_ethereum_event"
    [] q = "query_erc20_to_denom" -> "erc20_to_denom"
    [] q = "query_denom_to_erc20_params" -> "denom_to_erc20_params"
    [] q = "query_denom_to_erc20" -> "denom_to_erc20"
    [] q = "query_delegate_keys_by_validator" -> "delegate_keys_by_validator"
    [] q = "query_delegate_keys_by_ethereum_signer" ->
         "delegate_keys_by_ethereum_signer"
    [] q = "query_delegate_keys_by_orchestrator" -> "delegate_keys_by_orchestrator"
    [] q = "query_delegate_keys" -> "delegate_keys"
    [] q = "query_batched_send_to_ethereums" -> "batched_send_to_ethereums"
    [] q = "query_unbatched_send_to_ethereums" -> "unbatched_send_to_ethereums"

\* slip: the listing methods build their request with `pagination: None`
Request_dropping_pagination(q, args) ==
  CASE q = "query_somm_gravity_params" -> [message |-> "ParamsRequest"]
    [] q = "query_signer_set_tx" ->
         [message |-> "SignerSetTxRequest", signer_set_nonce |-> args.nonce]
    [] q = "query_latest_signer_set_tx" -> [message |-> "LatestSignerSetTxRequest"]
    [] q = "query_batch_tx" ->
         [message |-> "BatchTxRequest",
          token_contract |-> args.token_contract_address,
          batch_nonce |-> args.nonce]
    [] q = "query_contract_call_tx" ->
         [message |-> "ContractCallTxRequest",
          invalidation_scope |-> args.invalidation_scope,
          invalidation_nonce |-> args.invalidation_nonce]
    [] q = "query_signer_set_txs" ->
         [message |-> "SignerSetTxsRequest", pagination |-> [some |-> FALSE]]
    [] q = "query_batch_txs" ->
         [message |-> "BatchTxsRequest", pagination |-> [some |-> FALSE]]
    [] q = "query_contract_call_txs" ->
         [message |-> "ContractCallTxsRequest", pagination |-> [some |-> FALSE]]
    [] q = "query_signer_set_tx_confirmations" ->
         [message |-> "SignerSetTxConfirmationsRequest",
          signer_set_nonce |-> args.nonce]
    [] q = "query_batch_tx_confirmations" ->
         [message |-> "BatchTxConfirmationsRequest",
          token_contract |-> args.token_contract_address,
          batch_nonce |-> args.nonce]
    [] q = "query_contract_call_tx_confirmations" ->
         [message |-> "ContractCallTxConfirmationsRequest",
          invalidation_scope |-> args.invalidation_scope,
          invalidation_nonce |-> args.invalidation_nonce]
    [] q = "query_unsigned_signer_set_txs" ->
         [message |-> "UnsignedSignerSetTxsRequest", address |-> args.address]
    [] q = "query_unsigned_batch_txs" ->
         [message |-> "UnsignedBatchTxsRequest", address |-> args.address]
    [] q = "query_unsigned_contract_call_txs" ->
         [message |-> "UnsignedContractCallTxsRequest", address |-> args.address]
    [] q = "query_last_submitted_ethereum_event" ->
         [message |-> "LastSubmittedEthereumEventRequest", address |-> args.address]
    [] q = "query_erc20_to_denom" ->
         [message |-> "Erc20ToDenomRequest", erc20 |-> args.erc20]
    [] q = "query_denom_to_erc20_params" ->
         [message |-> "DenomToErc20ParamsRequest", denom |-> args.denom]
    [] q = "query_denom_to_erc20" ->
         [message |-> "DenomToErc20Request", denom |-> args.denom]
    [] q = "query_delegate_keys_by_validator" ->
         [message |-> "DelegateKeysByValidatorRequest",
          validator_address |-> args.validator_address]
    [] q = "query_delegate_keys_by_ethereum_signer" ->
         [message |-> "DelegateKeysByEthereumSignerRequest",
          ethereum_signer |-> args.ethereum_signer_address]
    [] q = "query_delegate_keys_by_orchestrator" ->
         [message |-> "DelegateKeysByOrchestratorRequest",
          orchestrator_address |-> args.orchestrator_address]
    [] q = "query_delegate_keys" -> [message |-> "DelegateKeysRequest"]
    [] q = "query_batched_send_to_ethereums" ->
         [message |-> "BatchedSendToEthereumsRequest",
          sender_address |-> args.sender_address]
    [] q = "query_unbatched_send_to_ethereums" ->
         [message |-> "UnbatchedSendToEthereumsRequest",
          sender_address |-> args.sender_address,
          pagination |-> [some |-> FALSE]]

\* the request each trait method builds from its parameters
Request(q, args) ==
  CASE q = "query_somm_gravity_params" -> [message |-> "ParamsRequest"]
    [] q = "query_signer_set_tx" ->
         [message |-> "SignerSetTxRequest", signer_set_nonce |-> args.nonce]
    [] q = "query_latest_signer_set_tx" -> [message |-> "LatestSignerSetTxRequest"]
    [] q = "query_batch_tx" ->
         [message |-> "BatchTxRequest",
          token_contract |-> args.token_contract_address,
          batch_nonce |-> args.nonce]
    [] q = "query_contract_call_tx" ->
         [message |-> "ContractCallTxRequest",
          invalidation_scope |-> args.invalidation_scope,
          invalidation_nonce |-> args.invalidation_nonce]
    [] q = "query_signer_set_txs" ->
         [message |-> "SignerSetTxsRequest", pagination |-> args.pagination]
    [] q = "query_batch_txs" ->
         [message |-> "BatchTxsRequest", pagination |-> args.pagination]
    [] q = "query_contract_call_txs" ->
         [message |-> "ContractCallTxsRequest", pagination |-> args.pagination]
    [] q = "query_signer_set_tx_confirmations" ->
         [message |-> "SignerSetTxConfirmationsRequest",
          signer_set_nonce |-> args.nonce]
    [] q = "query_batch_tx_confirmations" ->
         [message |-> "BatchTxConfirmationsRequest",
          token_contract |-> args.token_contract_address,
          batch_nonce |-> args.nonce]
    [] q = "query_contract_call_tx_confirmations" ->
         [message |-> "ContractCallTxConfirmationsRequest",
          invalidation_scope |-> args.invalidation_scope,
          invalidation_nonce |-> args.invalidation_nonce]
    [] q = "query_unsigned_signer_set_txs" ->
         [message |-> "UnsignedSignerSetTxsRequest", address |-> args.address]
    [] q = "query_unsigned_batch_txs" ->
         [message |-> "UnsignedBatchTxsRequest", address |-> args.address]
    [] q = "query_unsigned_contract_call_txs" ->
         [message |-> "UnsignedContractCallTxsRequest", address |-> args.address]
    [] q = "query_last_submitted_ethereum_event" ->
         [message |-> "LastSubmittedEthereumEventRequest", address |-> args.address]
    [] q = "query_erc20_to_denom" ->
         [message |-> "Erc20ToDenomRequest", erc20 |-> args.erc20]
    [] q = "query_denom_to_erc20_params" ->
         [message |-> "DenomToErc20ParamsRequest", denom |-> args.denom]
    [] q = "query_denom_to_erc20" ->
         [message |-> "DenomToErc20Request", denom |-> args.denom]
    [] q = "query_delegate_keys_by_validator" ->
         [message |-> "DelegateKeysByValidatorRequest",
          validator_address |-> args.validator_address]
    [] q = "query_delegate_keys_by_ethereum_signer" ->
         [message |-> "DelegateKeysByEthereumSignerRequest",
          ethereum_signer |-> args.ethereum_signer_address]
    [] q = "query_delegate_keys_by_orchestrator" ->
         [message |-> "DelegateKeysByOrchestratorRequest",
          orchestrator_address |-> args.orchestrator_address]
    [] q = "query_delegate_keys" -> [message |-> "DelegateKeysRequest"]
    [] q = "query_batched_send_to_ethereums" ->
         [message |-> "BatchedSendToEthereumsRequest",
          sender_address |-> args.sender_address]
    [] q = "query_unbatched_send_to_ethereums" ->
         [message |-> "UnbatchedSendToEthereumsRequest",
          sender_address |-> args.sender_address,
          pagination |-> args.pagination]

\* the response message the server sends for a method, carrying `body`
Response(method, body) ==
  CASE method = "erc20_to_denom" -> [method |-> method, denom |-> body]
    [] method = "denom_to_erc20" -> [method |-> method, erc20 |-> body]
    [] OTHER -> [method |-> method, body |-> body]

\* what a trait method returns from the response: into_inner(), and for the
\* two String-returning methods one field of it
FromResponse(q, response) ==
  CASE q = "query_erc20_to_denom" -> response.denom
    [] q = "query_denom_to_erc20" -> response.erc20
    [] OTHER -> response

\* the list-style methods, which take an Option<PageRequest>
ListingOps ==
  {"query_signer_set_txs", "query_batch_txs", "query_contract_call_txs",
   "query_unbatched_send_to_ethereums"}

\* a transport serving a listing of three entries in two known pages: the
\* first for a request without a cursor, the second for the cursor the first
\* page hands out
ServedPage(request) ==
  IF request.pagination.some /\ request.pagination.key = <<2>>
    THEN [items |-> <<"entry3">>,
          pagination |-> [next_key |-> <<>>, total |-> 3]]
    ELSE [items |-> <<"entry1", "entry2">>,
          pagination |-> [next_key |-> <<2>>, total |-> 3]]

\* slip: the error is replaced by a report of the facade's own
Propagate_reworded(e) ==
  [ok |-> FALSE, err |-> [type |-> "eyre::Report", msg |-> "query failed"]]

\* `?` on a failed await: the error is returned to the caller as it came
Propagate(e) == [ok |-> FALSE, err |-> e]

\* slip: a connection that is already open to the endpoint is handed out again
new_client_pooled(endpoint, chans, n) ==
  IF \E id \in DOMAIN chans :
       chans[id].endpoint = endpoint /\ chans[id].state = "open"
    THEN [id |-> CHOOSE id \in DOMAIN chans :
                   chans[id].endpoint = endpoint /\ chans[id].state = "open",
          channels |-> chans,
          connects |-> n]
    ELSE [id |-> n + 1,
          channels |-> chans @@
            ((n + 1) :> [endpoint |-> endpoint, state |-> "connecting",
                         rpcs |-> <<>>]),
          connects |-> n + 1]

\* SommGravityQueryClient::new_client(endpoint): QueryClient::connect starts a
\* connection of its own to `endpoint`; `n` connections were started before.
new_client(endpoint, chans, n) ==
  [id |-> n + 1,
   channels |-> chans @@
     ((n + 1) :> [endpoint |-> endpoint, state |-> "connecting", rpcs |-> <<>>]),
   connects |-> n + 1]

(***************************************************************************)
(* State: its parts and its initial value.                                 *)
(***************************************************************************)
encVars == <<op, action, remaining_mut, result>>

queryVars == <<grpc_endpoint, calls, channels, connects, started>>

vars == <<op, action, remaining_mut, result, earlier,
          grpc_endpoint, calls, channels, connects, started>>

Init ==
  /\ op = "none"
  /\ action = [variant |-> "none"]
  /\ remaining_mut = 0
  /\ result = [ok |-> FALSE, codec |-> <<>>]
  /\ earlier = [set |-> FALSE]
  /\ grpc_endpoint \in Endpoints
  /\ calls = [t \in Tasks |-> [pc |-> "idle"]]
  /\ channels = << >>
  /\ connects = 0
  /\ started = 0

(***************************************************************************)
(* The encoder's operations.                                               *)
(***************************************************************************)
\* SommGravity::into_any runs on action a, the buffer reporting r bytes of room
IntoAnyOf(a, r) ==
  /\ op = "none"
  /\ op' = "into_any"
  /\ action' = a
  /\ remaining_mut' = r
  /\ result' = into_any(a, r)
  /\ UNCHANGED <<queryVars, earlier>>

\* SommGravity::into_tx runs on action a, the buffer reporting r bytes of room
IntoTxOf(a, r) ==
  /\ op = "none"
  /\ op' = "into_tx"
  /\ action' = a
  /\ remaining_mut' = r
  /\ result' = into_tx(a, r)
  /\ UNCHANGED <<queryVars, earlier>>

\* a caller runs SommGravity::into_any on an action
IntoAny == \E a \in Actions, r \in Remainings : IntoAnyOf(a, r)

\* a caller runs SommGravity::into_tx on an action
IntoTx == \E a \in Actions, r \in Remainings : IntoTxOf(a, r)

\* the caller takes the returned value; the action was consumed by the call
Return ==
  /\ op # "none"
  /\ op' = "none"
  /\ action' = [variant |-> "none"]
  /\ remaining_mut' = 0
  /\ result' = [ok |-> FALSE, codec |-> <<>>]
  /\ UNCHANGED <<queryVars, earlier>>

Next == IntoAny \/ IntoTx \/ Return

Spec == Init /\ [][Next]_vars

(***************************************************************************)
(* The encoder called again and again: the caller keeps one into_any call  *)
(* and its result, makes other calls, and repeats the call it kept.        *)
(***************************************************************************)
\* the caller takes the value into_any returned and keeps it with the action
ReturnKeeping ==
  /\ op = "into_any"
  /\ ~earlier.set
  /\ earlier' = [set |-> TRUE, action |-> action,
                 remaining_mut |-> remaining_mut, result |-> result]
  /\ op' = "none"
  /\ action' = [variant |-> "none"]
  /\ remaining_mut' = 0
  /\ result' = [ok |-> FALSE, codec |-> <<>>]
  /\ UNCHANGED queryVars

\* one action of each variant
OneOfEach == { CHOOSE a \in Actions : a.variant = v : v \in Variants }

\* the actions of the calls that follow: any action while nothing is kept,
\* then the kept action again or one of each variant
LaterActions ==
  IF earlier.set THEN OneOfEach \cup {earlier.action} ELSE Actions

AgainNext ==
  \/ \E a \in LaterActions, r \in Remainings : IntoAnyOf(a, r)
  \/ \E a \in LaterActions, r \in Remainings : IntoTxOf(a, r)
  \/ Return
  \/ ReturnKeeping

AgainSpec == Init /\ [][AgainNext]_vars

(***************************************************************************)
(* The query methods, step by step.  Every method has the same body:       *)
(*   let mut client = SommGravityQueryClient::new_client(                  *)
(*                        self.grpc_endpoint()).await?;                    *)
(*   let request = ...;                                                    *)
(*   Ok(client.inner.<method>(request).await?.into_inner())                *)
(***************************************************************************)
\* task t calls method q: the body runs up to the await of new_client
QueryStart(t, q, args) ==
  /\ calls[t].pc = "idle"
  /\ started < MaxCalls
  /\ LET c == new_client(grpc_endpoint, channels, connects)
     IN  /\ calls' = [calls EXCEPT ![t] =
                        [pc |-> "connecting", method |-> q, args |-> args,
                         conn |-> c.id]]
         /\ channels' = c.channels
         /\ connects' = c.connects
  /\ started' = started + 1
  /\ UNCHANGED <<grpc_endpoint, encVars, earlier>>

\* slip: the client is kept in a field shared by all calls, so the request
\* goes out on whichever connection was started last
ConnectOk_latest_client(t) ==
  /\ calls[t].pc = "connecting"
  /\ channels[calls[t].conn].state = "connecting"
  /\ LET f == calls[t]
         client == connects
         request == Request(f.method, f.args)
     IN  /\ calls' = [calls EXCEPT ![t] =
                        [pc |-> "awaiting", method |-> f.method, args |-> f.args,
                         conn |-> f.conn, client |-> client]]
         /\ channels' = [channels EXCEPT
                           ![client].state = "open",
                           ![client].rpcs =
                             Append(@, [method |-> RpcMethod(f.method),
                                        request |-> request])]
  /\ UNCHANGED <<grpc_endpoint, connects, started, encVars, earlier>>

\* the connection of t's call is up: `client` is bound, the request is built
\* and sent on client.inner, and the body waits for the answer
ConnectOk(t) ==
  /\ calls[t].pc = "connecting"
  /\ channels[calls[t].conn].state = "connecting"
  /\ LET f == calls[t]
         client == f.conn
         request == Request(f.method, f.args)
     IN  /\ calls' = [calls EXCEPT ![t] =
                        [pc |-> "awaiting", method |-> f.method, args |-> f.args,
                         conn |-> f.conn, client |-> client]]
         /\ channels' = [channels EXCEPT
                           ![client].state = "open",
                           ![client].rpcs =
                             Append(@, [method |-> RpcMethod(f.method),
                                        request |-> request])]
  /\ UNCHANGED <<grpc_endpoint, connects, started, encVars, earlier>>

\* connecting fails: `?` returns the error from the method
ConnectErr(t, e) ==
  /\ calls[t].pc = "connecting"
  /\ channels[calls[t].conn].state = "connecting"
  /\ LET f == calls[t]
     IN  /\ calls' = [calls EXCEPT ![t] =
                        [pc |-> "done", method |-> f.method, args |-> f.args,
                         conn |-> f.conn, result |-> Propagate(e)]]
         /\ channels' = [channels EXCEPT ![f.conn] =
                           [endpoint |-> @.endpoint, state |-> "refused",
                            rpcs |-> @.rpcs, error |-> e]]
  /\ UNCHANGED <<grpc_endpoint, connects, started, encVars, earlier>>

\* the server answers the request: the method returns the response's content
RpcOk(t, body) ==
  /\ calls[t].pc = "awaiting"
  /\ LET f == calls[t]
         sent == channels[f.client].rpcs[Len(channels[f.client].rpcs)]
         response == Response(sent.method, body)
     IN  /\ calls' = [calls EXCEPT ![t] =
                        [pc |-> "done", method |-> f.method, args |-> f.args,
                         conn |-> f.conn, client |-> f.client,
                         result |-> [ok |-> TRUE,
                                     value |-> FromResponse(f.method, response)]]]
         /\ channels' = [channels EXCEPT ![f.client].rpcs =
                           [@ EXCEPT ![Len(@)] =
                              [method |-> sent.method, request |-> sent.request,
                               reply |-> [ok |-> TRUE, response |-> response]]]]
  /\ UNCHANGED <<grpc_endpoint, connects, started, encVars, earlier>>

\* the remote call fails: `?` returns the status from the method
RpcErr(t, status) ==
  /\ calls[t].pc = "awaiting"
  /\ LET f == calls[t]
         sent == channels[f.client].rpcs[Len(channels[f.client].rpcs)]
     IN  /\ calls' = [calls EXCEPT ![t] =
                        [pc |-> "done", method |-> f.method, args |-> f.args,
                         conn |-> f.conn, client |-> f.client,
                         result |-> Propagate(status)]]
         /\ channels' = [channels EXCEPT ![f.client].rpcs =
                           [@ EXCEPT ![Len(@)] =
                              [method |-> sent.method, request |-> sent.request,
                               reply |-> [ok |-> FALSE, status |-> status]]]]
  /\ UNCHANGED <<grpc_endpoint, connects, started, encVars, earlier>>

\* the caller takes the result; `client`, a local of the method, was dropped
\* on return and its connection with it
QueryReturn(t) ==
  /\ calls[t].pc = "done"
  /\ calls' = [calls EXCEPT ![t] = [pc |-> "idle"]]
  /\ channels' = [i \in DOMAIN channels \ {calls[t].conn} |-> channels[i]]
  /\ UNCHANGED <<grpc_endpoint, connects, started, encVars, earlier>>

QueryNext ==
  \/ \E t \in Tasks, q \in QueryOps : \E args \in QueryArgs(q) : QueryStart(t, q, args)
  \/ \E t \in Tasks : ConnectOk(t)
  \/ \E t \in Tasks, e \in ConnectErrors : ConnectErr(t, e)
  \/ \E t \in Tasks, body \in Bodies : RpcOk(t, body)
  \/ \E t \in Tasks, status \in Statuses : RpcErr(t, status)
  \/ \E t \in Tasks : QueryReturn(t)

QuerySpec == Init /\ [][QueryNext]_vars

(***************************************************************************)
(* Listing page by page against the two-page transport.                    *)
(***************************************************************************)
\* the response task u holds is a page of listing q that hands out `key` as
\* the cursor of the next page
HoldsCursor(u, q, args, key) ==
  /\ calls[u].pc = "done"
  /\ calls[u].result.ok
  /\ calls[u].method = q
  /\ [calls[u].args EXCEPT !.pagination = args.pagination] = args
  /\ key # <<>>
  /\ calls[u].result.value.body.pagination.next_key = key

\* task t calls a listing method: without a cursor, or with the cursor of a
\* response another task still holds
PageStart(t, q, args) ==
  /\ q \in ListingOps
  /\ args.pagination.some =>
       \E u \in Tasks \ {t} : HoldsCursor(u, q, args, args.pagination.key)
  /\ QueryStart(t, q, args)

\* the transport answers a listing request with the page it asks for
RpcPage(t) ==
  /\ calls[t].pc = "awaiting"
  /\ RpcOk(t, ServedPage(channels[calls[t].client].rpcs[1].request))

PageNext ==
  \/ \E t \in Tasks, q \in ListingOps : \E args \in QueryArgs(q) : PageStart(t, q, args)
  \/ \E t \in Tasks : ConnectOk(t)
  \/ \E t \in Tasks, e \in ConnectErrors : ConnectErr(t, e)
  \/ \E t \in Tasks : RpcPage(t)
  \/ \E t \in Tasks, status \in Statuses : RpcErr(t, status)
  \/ \E t \in Tasks : QueryReturn(t)

PageSpec == Init /\ [][PageNext]_vars

(***************************************************************************)
(* Properties of the encoder, checked under Spec.                          *)
(***************************************************************************)
\* the codec takes the message the last call is about
CodecAccepts == Len(encode_raw(action)) <= remaining_mut

\* the result of the last call is an Err carrying exactly this text
FailedWith(text) ==
  /\ ~result.ok
  /\ result.err.text = text
  /\ "tx" \notin DOMAIN result
  /\ "any" \notin DOMAIN result

\* C1: into_tx on ContractCallTxConfirmation, BatchTxConfirmation or
\* SignerSetTxConfirmation returns, whatever the fields (an empty signature
\* included), an error whose text names that variant, and no transaction.
C1_ConfirmationsRefused ==
  (op = "into_tx" /\ action.variant \in ConfirmationVariants) =>
    FailedWith(action.variant
      \o " does not represent a transaction Msg. use into_any() to get the Any representation")

C1_Witness ==
  /\ op = "into_tx"
  /\ action.variant = "SignerSetTxConfirmation"
  /\ action.signature = <<>>
  /\ ~result.ok

C3_TypeIdentifier ==
  [SendToEthereum |-> "/gravity.v1.MsgSendToEthereum",
   CancelSendToEthereum |-> "/gravity.v1.MsgCancelSendToEthereum",
   RequestBatchTx |-> "/gravity.v1.MsgRequestBatchTx",
   SubmitEthereumTxConfirmation |-> "/gravity.v1.MsgSubmitEthereumTxConfirmation",
   SubmitEthereumEvent |-> "/gravity.v1.MsgSubmitEthereumEvent",
   SetDelegateKeys |-> "/gravity.v1.MsgDelegateKeys",
   SubmitEthereumHeightVote |-> "/gravity.v1.MsgEthereumHeightVote"]

\* C3: for each of the seven transaction messages, into_tx succeeds whenever
\* the codec takes the fields, and the envelope in the transaction carries the
\* type identifier fixed for that variant.
C3_EligibleVariantsEncode ==
  (op = "into_tx" /\ action.variant \in DOMAIN C3_TypeIdentifier /\ CodecAccepts) =>
    /\ result.ok
    /\ Len(result.tx.msgs) >= 1
    /\ \A i \in 1..Len(result.tx.msgs) :
         result.tx.msgs[i].type_url = C3_TypeIdentifier[action.variant]

C3_Witness ==
  /\ op = "into_tx"
  /\ action.variant = "SetDelegateKeys"
  /\ action.eth_signature # <<>>
  /\ result.ok

\* C4: into_tx refuses a confirmation before any encoding: the codec is not
\* invoked on that path, so even when the codec would fail the error is the
\* refusal and not an encoding error.
C4_RefusalBeforeEncoding ==
  (op = "into_tx" /\ action.variant \in ConfirmationVariants) =>
    /\ result.codec = <<>>
    /\ ~result.ok
    /\ result.err.text = NotATxText(action.variant)
    /\ "e" \notin DOMAIN result.err

C4_Witness ==
  /\ op = "into_tx"
  /\ action.variant \in ConfirmationVariants
  /\ ~CodecAccepts
  /\ ~result.ok

\* C5: into_any is total over the eleven variants: it returns an envelope
\* whenever the codec takes the fields, it returns an error exactly when the
\* codec fails, the error names the message that was being encoded, and no
\* envelope comes back after a codec failure.
C5_IntoAnyTotal ==
  (op = "into_any") =>
    /\ action.variant \in Variants
    /\ Len(result.codec) = 1
    /\ result.codec[1].ok = CodecAccepts
    /\ result.ok = CodecAccepts
    /\ result.ok => ("any" \in DOMAIN result /\ "err" \notin DOMAIN result)
    /\ ~result.ok =>
         /\ FailedWith("failed to encode " \o MsgType(action.variant) \o ": {}")
         /\ result.codec[1].msg = MsgType(action.variant)
         /\ result.err.e.required > result.err.e.remaining

C5_Witness ==
  /\ op = "into_any"
  /\ action.variant = "DelegateKeysSignMsg"
  /\ ~CodecAccepts
  /\ ~result.ok

\* C6: a transaction returned by into_tx holds exactly one message, and it is
\* the envelope into_any returns for the same action: same type identifier,
\* same payload bytes.
C6_SingleMessageTx ==
  (op = "into_tx" /\ result.ok) =>
    /\ Len(result.tx.msgs) = 1
    /\ into_any(action, remaining_mut).ok
    /\ result.tx.msgs[1].type_url = into_any(action, remaining_mut).any.type_url
    /\ result.tx.msgs[1].value = into_any(action, remaining_mut).any.value

C6_Witness ==
  /\ op = "into_tx"
  /\ result.ok
  /\ action.variant = "SendToEthereum"
  /\ Len(result.tx.msgs[1].value) > 0

\* C7: no two of the eleven variants are encoded under the same type
\* identifier: the identifier into_any returned belongs to no other variant.
C7_TypeUrlInjective ==
  (op = "into_any" /\ result.ok) =>
    \A v \in Variants :
      TypeUrl(v) = result.any.type_url => v = action.variant

C7_Witness ==
  /\ op = "into_any"
  /\ result.ok
  /\ action.variant = "BatchTxConfirmation"

\* C8: into_any succeeds on every confirmation the codec takes, and encoding
\* SubmitEthereumTxConfirmation around such an envelope (by into_any or by
\* into_tx) succeeds with the type identifier of
\* MsgSubmitEthereumTxConfirmation, not that of the confirmation inside.
C8_Envelope ==
  IF op = "into_tx" THEN result.tx.msgs[1] ELSE result.any

C8_Nesting ==
  /\ (op = "into_any" /\ action.variant \in ConfirmationVariants /\ CodecAccepts) =>
       (result.ok /\ result.any \in ConfirmationAnys)
  /\ (/\ op \in {"into_any", "into_tx"}
      /\ action.variant = "SubmitEthereumTxConfirmation"
      /\ action.confirmation \in ConfirmationAnys
      /\ CodecAccepts) =>
       /\ result.ok
       /\ C8_Envelope.type_url = "/gravity.v1.MsgSubmitEthereumTxConfirmation"
       /\ C8_Envelope.type_url # action.confirmation.type_url

C8_Witness ==
  /\ op = "into_tx"
  /\ action.variant = "SubmitEthereumTxConfirmation"
  /\ action.confirmation.type_url = "/gravity.v1.ContractCallTxConfirmation"
  /\ action.confirmation.value # <<>>
  /\ result.ok
(***************************************************************************)
(* Properties of the query facade, checked under QuerySpec.                *)
(***************************************************************************)
\* the tasks with a query call in flight
InFlight == { t \in Tasks : calls[t].pc # "idle" }

\* C9: every query call opens a connection of its own to the configured
\* endpoint and issues exactly one remote call on it: as many connections have
\* been opened as calls were made, no two calls share a connection, and no
\* connection has carried more than one remote call.
C9_OneConnectionPerCall ==
  /\ connects = started
  /\ Cardinality(DOMAIN channels) = Cardinality(InFlight)
  /\ \A id \in DOMAIN channels :
       /\ id <= connects
       /\ Len(channels[id].rpcs) <= 1
       /\ channels[id].endpoint = grpc_endpoint
  /\ \A t \in InFlight :
       /\ calls[t].conn \in DOMAIN channels
       /\ \A u \in InFlight \ {t} : calls[u].conn # calls[t].conn
       /\ calls[t].pc = "connecting" => channels[calls[t].conn].rpcs = <<>>
       /\ calls[t].pc = "awaiting" => "client" \in DOMAIN calls[t]
       /\ (calls[t].pc = "done" /\ calls[t].result.ok) => "client" \in DOMAIN calls[t]
       /\ "client" \in DOMAIN calls[t] =>
            /\ calls[t].client = calls[t].conn
            /\ Len(channels[calls[t].client].rpcs) = 1
            /\ channels[calls[t].client].rpcs[1].method = RpcMethod(calls[t].method)
            /\ channels[calls[t].client].rpcs[1].request =
                 Request(calls[t].method, calls[t].args)

C9_Witness ==
  /\ started >= 3
  /\ \A t \in Tasks : calls[t].pc = "done" /\ calls[t].result.ok
  /\ calls["t1"].method = "query_somm_gravity_params"
  /\ calls["t2"].method = "query_unbatched_send_to_ethereums"

\* a call of task t that has failed
Failed(t) == calls[t].pc = "done" /\ ~calls[t].result.ok

C10_State ==
  /\ connects = started
  /\ \A t \in Tasks :
       Failed(t) =>
         /\ "value" \notin DOMAIN calls[t].result
         /\ calls[t].conn \in DOMAIN channels
         /\ channels[calls[t].conn].state \in {"refused", "open"}
         /\ channels[calls[t].conn].state = "refused" =>
              /\ channels[calls[t].conn].rpcs = <<>>
              /\ "client" \notin DOMAIN calls[t]
              /\ calls[t].result.err = channels[calls[t].conn].error
         /\ channels[calls[t].conn].state = "open" =>
              /\ Len(channels[calls[t].conn].rpcs) = 1
              /\ ~channels[calls[t].conn].rpcs[1].reply.ok
              /\ calls[t].result.err = channels[calls[t].conn].rpcs[1].reply.status
  /\ \A t \in InFlight :
       LET ch == channels[calls[t].conn]
       IN  (\/ ch.state = "refused"
            \/ (ch.rpcs # <<>> /\ "reply" \in DOMAIN ch.rpcs[1] /\ ~ch.rpcs[1].reply.ok))
             => Failed(t)

C10_Step ==
  \A t \in Tasks :
    /\ Failed(t) => (calls'[t] = calls[t] \/ calls'[t].pc = "idle")
    /\ (~Failed(t) /\ calls'[t].pc = "done" /\ ~calls'[t].result.ok) =>
         /\ connects' = connects
         /\ DOMAIN channels' = DOMAIN channels
         /\ Len(channels'[calls[t].conn].rpcs) = Len(channels[calls[t].conn].rpcs)

\* C10: a failure ends the call and reaches the caller unchanged.  When the
\* connection cannot be opened no remote call is issued and the connection
\* error is returned; when the remote call fails its status is returned; in
\* both cases there is no retry, no second connection and no response.
C10_FailuresTerminal == []C10_State /\ [][C10_Step]_vars

C10_Witness ==
  /\ Failed("t1")
  /\ channels[calls["t1"].conn].state = "refused"
  /\ Failed("t2")
  /\ channels[calls["t2"].conn].state = "open"
(***************************************************************************)
(* Properties of listing, checked under PageSpec.                          *)
(***************************************************************************)
\* no entry occurs twice in a sequence
NoDuplicates(seq) ==
  \A i, j \in 1..Len(seq) : seq[i] = seq[j] => i = j

\* task u's call was made with the cursor of the response task t holds
ContinuesFrom(t, u) ==
  /\ u # t
  /\ calls[u].pc # "idle"
  /\ calls[u].method \in ListingOps
  /\ calls[u].args.pagination.some
  /\ HoldsCursor(t, calls[u].method, calls[u].args, calls[u].args.pagination.key)

\* C11: a listing call made with the cursor of a prior response returns a
\* page that, put after the prior page, repeats none of its entries, when
\* the transport serves two known pages: the pagination value reaches the
\* request as the caller gave it and the response reaches the caller as the
\* transport sent it.
C11_PagesDoNotOverlap ==
  \A t, u \in Tasks :
    ContinuesFrom(t, u) =>
      /\ "client" \in DOMAIN calls[u] =>
           channels[calls[u].client].rpcs[1].request.pagination =
             calls[u].args.pagination
      /\ (calls[u].pc = "done" /\ calls[u].result.ok) =>
           /\ calls[u].result.value =
                channels[calls[u].client].rpcs[1].reply.response
           /\ calls[t].result.value =
                channels[calls[t].client].rpcs[1].reply.response
           /\ NoDuplicates(calls[t].result.value.body.items
                             \o calls[u].result.value.body.items)

C11_Witness ==
  /\ ContinuesFrom("t1", "t2")
  /\ calls["t2"].method = "query_unbatched_send_to_ethereums"
  /\ calls["t2"].pc = "done"
  /\ calls["t2"].result.ok
  /\ Len(calls["t1"].result.value.body.items
           \o calls["t2"].result.value.body.items) = 3
(***************************************************************************)
(* Properties of repeated encoding, checked under AgainSpec.               *)
(***************************************************************************)
\* the call just made repeats the one the caller kept: equal action, and the
\* buffer reports the same room
RepeatsEarlier ==
  /\ op = "into_any"
  /\ earlier.set
  /\ action = earlier.action
  /\ remaining_mut = earlier.remaining_mut

C12_State ==
  RepeatsEarlier =>
    /\ result.ok = earlier.result.ok
    /\ result.ok =>
         /\ result.any.type_url = earlier.result.any.type_url
         /\ result.any.value = earlier.result.any.value
    /\ ~result.ok => result.err = earlier.result.err

C12_Step ==
  (op = "none" /\ op' = "into_any") => UNCHANGED <<queryVars, earlier>>

Delivered(t) ==
  LET ch == channels[calls[t].conn]
  IN  IF ch.state = "refused"
        THEN Propagate(ch.error)
        ELSE IF ch.rpcs[1].reply.ok
               THEN [ok |-> TRUE,
                     value |-> FromResponse(calls[t].method,
                                            ch.rpcs[1].reply.response)]
               ELSE Propagate(ch.rpcs[1].reply.status)

C13_State ==
  \A t \in InFlight :
    /\ calls[t].conn \in DOMAIN channels
    /\ \A u \in InFlight \ {t} : calls[u].conn # calls[t].conn
    /\ "client" \in DOMAIN calls[t] =>
         /\ calls[t].client = calls[t].conn
         /\ channels[calls[t].conn].rpcs # <<>>
         /\ channels[calls[t].conn].rpcs[1].method = RpcMethod(calls[t].method)
         /\ channels[calls[t].conn].rpcs[1].request =
              Request(calls[t].method, calls[t].args)
    /\ "client" \notin DOMAIN calls[t] => channels[calls[t].conn].rpcs = <<>>
    /\ calls[t].pc = "done" => calls[t].result = Delivered(t)

C13_Step ==
  /\ grpc_endpoint' = grpc_endpoint
  /\ \A t \in Tasks :
       calls'[t] # calls[t] =>
         \A u \in Tasks \ {t} :
           /\ calls'[u] = calls[u]
           /\ calls[u].pc # "idle" =>
                /\ calls[u].conn \in DOMAIN channels'
                /\ channels'[calls[u].conn] = channels[calls[u].conn]

\* C13: query calls in flight together do not interfere.  In every
\* interleaving of their connect and remote-call steps each call sends its
\* own request on the connection it opened itself and returns the response
\* or the error delivered on that connection; a step of one call changes
\* neither another call nor its connection, and none writes the facade.
C13_NoInterference == []C13_State /\ [][C13_Step]_vars

C13_Witness ==
  /\ calls["t1"].pc = "done"
  /\ calls["t2"].pc = "done"
  /\ calls["t1"].conn > calls["t2"].conn
  /\ calls["t1"].method = "query_erc20_to_denom"
  /\ calls["t1"].result.ok
  /\ calls["t1"].result.value = "b1"
  /\ calls["t2"].method = "query_denom_to_erc20"
  /\ calls["t2"].result.ok
  /\ calls["t2"].result.value = "b2"
(***************************************************************************)
(* A codec failure inside into_tx, checked under Spec.                     *)
(***************************************************************************)
\* C14: when into_tx is called on a variant it does not refuse and the codec
\* fails on it, into_tx returns the encoding error of into_any and no
\* transaction, neither an empty one nor one with a partly encoded message.
C14_EncodeErrorLeavesNoTx ==
  (op = "into_tx" /\ action.variant \notin ConfirmationVariants /\ ~CodecAccepts) =>
    /\ FailedWith(BailFormat(action.variant))
    /\ result.err.e = [required |-> Len(encode_raw(action)),
                       remaining |-> remaining_mut]
    /\ result.codec = <<[msg |-> MsgType(action.variant), ok |-> FALSE]>>

C14_Witness ==
  /\ op = "into_tx"
  /\ action.variant = "SendToEthereum"
  /\ remaining_mut > 0
  /\ ~CodecAccepts
  /\ ~result.ok
====
